---- MODULE Spec2Model ----
(***************************************************************************)
(* fontfit.js: fitFontToContainer(target, container, options).             *)
(*                                                                         *)
(* The file holds two variants of the same utility: the in-place variant   *)
(* (lines 5-119), which probes candidate sizes on the live target, and the *)
(* offscreen-clone variant (lines 125-257), which probes them on a clone   *)
(* inside a measurement box.  One session of either variant is modelled:   *)
(* its binary search (one step per loop iteration), its refit cycle, its   *)
(* debounce timer, its observers and the environment's signals.            *)
(*                                                                         *)
(* The layout engine is external.  What it answers for a candidate size is *)
(* the variable oracle: the set of sizes at which the measured box fits.   *)
(* Sizes are integers, so Math.floor is the identity on them.              *)
(***************************************************************************)
EXTENDS Integers, Sequences, FiniteSets

VARIABLES
    variant,      \* "inplace" (lines 5-119) or "clone" (lines 125-257)
    opts,         \* the merged options object (Object.assign over the defaults)
    env,          \* which APIs the host has: ResizeObserver, MutationObserver, document.fonts
    args,         \* whether targetEl / containerEl were passed (not null or undefined)
    phase,        \* fitFontToContainer: before the call, live (it returned), threw
    cw, ch,       \* container.clientWidth, container.clientHeight
    oracle,       \* sizes at which the measurement finds the content to fit
    busy,         \* the session's busy flag
    stack,        \* search frames [lo, hi, best] of the refit cycles in progress
    fontSize,     \* target.style.fontSize in px; 0 while no size has been written
    marker,       \* target.dataset.fittedFontPx: <<>> or <<number>>
    outcome,      \* how the latest refit cycle stands: none, running, applied, threw
    surfaces,     \* measurement boxes attached to document.body (clone variant)
    styled,       \* the target carries display/width/maxWidth set by a search (in-place)
    probed,       \* sizes measured so far by the search in progress
    timers,       \* pending setTimeout callbacks: slot -> ticks left, -1 when free
    t,            \* the debounce closure's timer handle; 0 while undefined
    rafPending,   \* the requestAnimationFrame callback has not run yet
    fontsThen,    \* document.fonts.ready.then(debounced): none, pending, done
    ro, mo,       \* the ResizeObserver / MutationObserver is observing
    winListener,  \* debounced is a listener of window 'resize'
    disconnected, \* disconnect() has been called
    burst,        \* debounced invocations since the timer was last idle
    fires,        \* debounced refit executions since the current burst began
    ev            \* the operation that produced this state

vars == <<variant, opts, env, args, phase, cw, ch, oracle, busy, stack, fontSize, marker,
          outcome, surfaces, styled, probed, timers, t, rafPending, fontsThen, ro, mo,
          winListener, disconnected, burst, fires, ev>>

sessionVars == <<busy, stack, fontSize, marker, outcome, surfaces, styled, probed>>
timerVars == <<timers, t, burst, fires>>
wiringVars == <<rafPending, fontsThen, ro, mo, winListener, disconnected>>
configVars == <<variant, opts, env, args, phase>>
layoutVars == <<cw, ch, oracle>>

----------------------------------------------------------------------------
(* Bounds of the model *)

MaxPx == 12        \* largest size an option may name
MaxDim == 1        \* largest client width / height of the container
MaxDebounce == 2   \* largest debounceMs, in ticks
MaxTimers == 2     \* setTimeout slots
MaxDepth == 2      \* refit cycles that may nest before the model stops nesting
MaxBurst == 2      \* debounced invocations counted in one burst
MaxSurfaces == 1   \* measurement boxes left attached before measurements stop throwing

(* Program constant: `return best-10` of the in-place variant *)
Offset == 10

Variants == {"inplace", "clone"}
Dims == 0..MaxDim

Max(a, b) == IF a >= b THEN a ELSE b

----------------------------------------------------------------------------
(* Pure helpers *)

\* el.style.fontSize = Math.max(1, Math.floor(px)) + 'px'
setFontSizePx(px) == Max(1, px)

\* String(best) stored in dataset.fittedFontPx; read back as the number it spells
markerOf(best) == <<best>>

\* the guard without its height test
DegenerateWidthOnly == cw <= 0

\* the guard with && in place of ||
DegenerateBoth == cw <= 0 /\ ch <= 0

\* if (cw <= 0 || ch <= 0) return minPx;
Degenerate == cw <= 0 \/ ch <= 0

\* in-place: elementFits(target, container); clone: probe.scrollHeight <= ch
elementFits(mid) == mid \in oracle

\* a search that takes the target's current size as its upper end
newFrameFromCurrent ==
    [lo |-> Max(1, opts.minPx),
     hi |-> IF fontSize > 0 THEN fontSize ELSE opts.maxPx,
     best |-> Max(1, opts.minPx)]

\* lo = Math.max(1, Math.floor(minPx)); hi = Math.floor(maxPx); best = lo
newFrame == [lo |-> Max(1, opts.minPx), hi |-> opts.maxPx, best |-> Max(1, opts.minPx)]

\* mid = Math.floor((lo + hi) / 2)
midOf(f) == (f.lo + f.hi) \div 2

\* a loop that keeps mid inside the interval after a fit
stepFrameNoAdvance(f, fits) ==
    IF fits THEN [lo |-> midOf(f), hi |-> f.hi, best |-> midOf(f)]
            ELSE [lo |-> f.lo, hi |-> midOf(f) - 1, best |-> f.best]

\* one iteration of the while loop, given the oracle's answer
stepFrame(f, fits) ==
    IF fits THEN [lo |-> midOf(f) + 1, hi |-> f.hi, best |-> midOf(f)]
            ELSE [lo |-> f.lo, hi |-> midOf(f) - 1, best |-> f.best]

\* in-place: return best-10;  clone: return best;
searchResult(best) == IF variant = "inplace" THEN best - Offset ELSE best

\* a refit without its reentrancy guard
busyGuardOff(b) == FALSE

\* if (busy) return;
busyGuard(b) == b

top == stack[Len(stack)]
pop == SubSeq(stack, 1, Len(stack) - 1)
idle == stack = <<>>
inMeasurement == ~idle /\ top.lo <= top.hi

\* The whole search as a function: what computeBestFontSize returns for a
\* frame when no measurement throws.
RECURSIVE runSearch(_)
runSearch(f) ==
    IF f.lo <= f.hi THEN runSearch(stepFrame(f, elementFits(midOf(f)))) ELSE f.best

computeBestFontSize ==
    IF Degenerate THEN opts.minPx ELSE searchResult(runSearch(newFrame))

----------------------------------------------------------------------------
(* debounce(fn, delay): clearTimeout(t); t = setTimeout(fn, delay) *)

noTimers == [i \in 1..MaxTimers |-> -1]
timerPending == \E i \in 1..MaxTimers : timers[i] >= 0

\* a debounce that never cancels the timer it replaces
clearTimeoutNever(ts, h) == ts

\* clearTimeout(t): a handle that is undefined or has fired clears nothing
clearTimeout(ts, h) == IF h \in 1..MaxTimers THEN [ts EXCEPT ![h] = -1] ELSE ts

freeSlots(ts) == {i \in 1..MaxTimers : ts[i] = -1}
newHandle(ts) == CHOOSE i \in freeSlots(ts) : \A j \in freeSlots(ts) : i <= j

\* a debounce that cancels the pending timer without arming a new one
debouncedCancelOnly ==
    /\ timers' = IF timerPending THEN clearTimeout(timers, t)
                  ELSE [timers EXCEPT ![newHandle(timers)] = opts.debounceMs]
    /\ t' = IF timerPending THEN t ELSE newHandle(timers)
    /\ burst' = IF timerPending THEN (IF burst < MaxBurst THEN burst + 1 ELSE burst) ELSE 1
    /\ fires' = IF timerPending THEN fires ELSE 0

\* one invocation of the debounced function, made with the timers as in ts
\* and f callbacks run since the burst began
debouncedOn(ts, f) ==
    LET cleared == clearTimeout(ts, t)
        pending == \E i \in 1..MaxTimers : ts[i] >= 0
    IN
    /\ freeSlots(cleared) # {}
    /\ timers' = [cleared EXCEPT ![newHandle(cleared)] = opts.debounceMs]
    /\ t' = newHandle(cleared)
    /\ burst' = IF pending THEN (IF burst < MaxBurst THEN burst + 1 ELSE burst) ELSE 1
    /\ fires' = IF pending THEN f ELSE 0

\* one invocation of the debounced function
debounced == debouncedOn(timers, fires)

\* a MutationObserver that also asks for attribute changes
observedKindsWithAttributes == {"attributes", "characterData", "childList"}

\* mo.observe(targetEl, { characterData: true, subtree: true, childList: true }):
\* the kinds of change reported, anywhere in the target's subtree
observedKinds == {"characterData", "childList"}

\* what a refit cycle changes on the target: style.fontSize, style.display,
\* style.width, style.maxWidth and dataset.fittedFontPx are all attributes
refitWrites == {"attributes"}

\* the observer's callback runs once the cycle that wrote has ended
moNotified(wrote) == wrote /\ mo /\ (refitWrites \cap observedKinds) # {}

notify(wrote) == IF moNotified(wrote) THEN debounced ELSE UNCHANGED timerVars


----------------------------------------------------------------------------
(* refit(): the call itself.  With busy set it returns at once.  With a     *)
(* degenerate container computeBestFontSize returns minPx without a loop,   *)
(* so the cycle is one step.  Otherwise the search frame is set up and the  *)
(* loop iterations follow as SearchProbe / SearchThrow, then RefitApply.    *)

refitCall ==
    IF busyGuard(busy)
    THEN UNCHANGED sessionVars
    ELSE IF Degenerate
    THEN /\ busy' = FALSE
         /\ fontSize' = setFontSizePx(opts.minPx)
         /\ marker' = markerOf(opts.minPx)
         /\ outcome' = "applied"
         /\ UNCHANGED <<stack, surfaces, styled, probed>>
    ELSE /\ busy' = TRUE
         /\ stack' = Append(stack, newFrame)
         /\ outcome' = "running"
         /\ surfaces' = IF variant = "clone" THEN surfaces + 1 ELSE surfaces
         /\ styled' = IF variant = "inplace" THEN TRUE ELSE styled
         /\ probed' = {}
         /\ UNCHANGED <<fontSize, marker>>

refitLabel(src) ==
    IF busyGuard(busy) THEN "dropped" ELSE src

\* the call ran a whole cycle in one step and wrote its result
wroteAtCall == ~busyGuard(busy) /\ Degenerate

\* session.refit() called by the page while no handler is running
ManualRefit ==
    /\ idle
    /\ refitCall
    /\ ev' = refitLabel("manual")
    /\ notify(wroteAtCall)
    /\ UNCHANGED <<configVars, layoutVars, wiringVars>>

\* refit() called from inside a measurement of a running cycle
ReentrantRefit ==
    /\ inMeasurement
    /\ Len(stack) < MaxDepth
    /\ refitCall
    /\ ev' = refitLabel("nested")
    /\ notify(wroteAtCall)
    /\ UNCHANGED <<configVars, layoutVars, wiringVars>>

\* a clone variant whose loop sets the candidate size on the target itself
probeWritesLiveAlways == TRUE

\* in-place: setFontSizePx(target, mid); clone: setFontSizePx(probe, mid)
probeWritesLive == variant = "inplace"

\* one iteration of the loop whose measurement returns
SearchProbe ==
    /\ inMeasurement
    /\ stack' = Append(pop, stepFrame(top, elementFits(midOf(top))))
    /\ fontSize' = IF probeWritesLive THEN setFontSizePx(midOf(top)) ELSE fontSize
    /\ probed' = probed \cup {midOf(top)}
    /\ ev' = "probe"
    /\ UNCHANGED <<busy, marker, outcome, surfaces, styled>>
    /\ UNCHANGED <<configVars, layoutVars, timerVars, wiringVars>>

\* a refit whose busy flag is cleared after the try block, not in a finally
SearchThrowNoFinally ==
    /\ inMeasurement
    /\ surfaces <= MaxSurfaces
    /\ stack' = <<>>
    /\ fontSize' = IF probeWritesLive THEN setFontSizePx(midOf(top)) ELSE fontSize
    /\ outcome' = "threw"
    /\ ev' = "throw"
    /\ probed' = {}
    /\ UNCHANGED <<busy, marker, surfaces, styled>>
    /\ notify(probeWritesLive)
    /\ UNCHANGED <<configVars, layoutVars, wiringVars>>

\* one iteration whose layout read throws: the finally clause clears busy and
\* the exception leaves refit()
SearchThrow ==
    /\ inMeasurement
    /\ surfaces <= MaxSurfaces
    /\ stack' = <<>>
    /\ fontSize' = IF probeWritesLive THEN setFontSizePx(midOf(top)) ELSE fontSize
    /\ busy' = FALSE
    /\ outcome' = "threw"
    /\ ev' = "throw"
    /\ probed' = {}
    /\ UNCHANGED <<marker, surfaces, styled>>
    /\ notify(probeWritesLive)
    /\ UNCHANGED <<configVars, layoutVars, wiringVars>>

\* the loop has ended: computeBestFontSize returns, refit applies and records
RefitApply ==
    /\ ~idle
    /\ top.lo > top.hi
    /\ surfaces' = IF variant = "clone" THEN surfaces - 1 ELSE surfaces
    /\ fontSize' = setFontSizePx(searchResult(top.best))
    /\ marker' = markerOf(searchResult(top.best))
    /\ busy' = FALSE
    /\ stack' = pop
    /\ outcome' = "applied"
    /\ probed' = {}
    /\ ev' = "apply"
    /\ notify(TRUE)
    /\ UNCHANGED styled
    /\ UNCHANGED <<configVars, layoutVars, wiringVars>>

----------------------------------------------------------------------------
(* The timers and callbacks of the session *)

\* time passes: every pending timer that is not yet due comes one tick closer
Tick ==
    /\ idle
    /\ \E i \in 1..MaxTimers : timers[i] > 0
    /\ timers' = [i \in 1..MaxTimers |-> IF timers[i] > 0 THEN timers[i] - 1 ELSE timers[i]]
    /\ ev' = "tick"
    /\ UNCHANGED <<t, burst, fires>>
    /\ UNCHANGED <<configVars, layoutVars, sessionVars, wiringVars>>

\* a due timer runs its callback: () => refit()
TimerFire ==
    /\ idle
    /\ \E i \in 1..MaxTimers :
          /\ timers[i] = 0
          /\ IF moNotified(wroteAtCall)
             THEN debouncedOn([timers EXCEPT ![i] = -1], fires + 1)
             ELSE /\ timers' = [timers EXCEPT ![i] = -1]
                  /\ fires' = fires + 1
                  /\ UNCHANGED <<t, burst>>
    /\ refitCall
    /\ ev' = refitLabel("timer")
    /\ UNCHANGED <<configVars, layoutVars, wiringVars>>

\* an initial fit that goes through the debounce timer
RafFireViaDebounce ==
    /\ idle
    /\ rafPending
    /\ rafPending' = FALSE
    /\ debounced
    /\ ev' = "raf"
    /\ UNCHANGED <<fontsThen, ro, mo, winListener, disconnected>>
    /\ UNCHANGED <<configVars, layoutVars, sessionVars>>

\* requestAnimationFrame(() => refit())
RafFire ==
    /\ idle
    /\ rafPending
    /\ rafPending' = FALSE
    /\ refitCall
    /\ ev' = refitLabel("raf")
    /\ notify(wroteAtCall)
    /\ UNCHANGED <<fontsThen, ro, mo, winListener, disconnected>>
    /\ UNCHANGED <<configVars, layoutVars>>

\* document.fonts.ready resolves: .then(debounced)
FontsReady ==
    /\ idle
    /\ fontsThen = "pending"
    /\ fontsThen' = "done"
    /\ debounced
    /\ ev' = "fonts"
    /\ UNCHANGED <<rafPending, ro, mo, winListener, disconnected>>
    /\ UNCHANGED <<configVars, layoutVars, sessionVars>>

----------------------------------------------------------------------------
(* The environment's signals.  A signal reaches debounced only through a    *)
(* subscription that is still in place.                                     *)

\* what the layout engine may answer in the sessions of Spec
Fits == {1..(MaxPx - 2), 1..(MaxPx - 1), 1..MaxPx}

deliver(subscribed, label) ==
    IF subscribed
    THEN debounced /\ ev' = label
    ELSE UNCHANGED timerVars /\ ev' = "unheard"

\* the container's box changes (or is first observed); the ResizeObserver reports it
ContainerResize ==
    /\ idle
    /\ cw' \in Dims
    /\ ch' = cw'
    /\ oracle' \in IF cw' <= 0 THEN {{}} ELSE Fits
    /\ deliver(ro, "resize")
    /\ UNCHANGED <<configVars, sessionVars, wiringVars>>

\* the window is resized: the 'resize' event reaches the listeners of window
WindowResize ==
    /\ idle
    /\ deliver(winListener, "winresize")
    /\ UNCHANGED <<configVars, layoutVars, sessionVars, wiringVars>>

\* the target's text or children change; the MutationObserver reports it
ContentMutation ==
    /\ idle
    /\ ~Degenerate
    /\ oracle' \in Fits \ {oracle}
    /\ deliver(mo, "mutation")
    /\ UNCHANGED <<cw, ch>>
    /\ UNCHANGED <<configVars, sessionVars, wiringVars>>

\* whether the session ever created its ResizeObserver / MutationObserver
roExists == opts.observeResize /\ env.hasRO
moExists == opts.observeMutations /\ env.hasMO

\* ro.disconnect() called without the `if (ro)` test: throws on undefined
observerCallUnguarded(exists) == ~exists

\* if (ro) ro.disconnect(); if (mo) mo.disconnect(): the call is made only on
\* an observer that exists, so it never throws
observerCallThrows(exists) == FALSE

\* a disconnect that leaves the window listener in place
disconnectKeepsListener ==
    /\ idle
    /\ ro' = FALSE
    /\ mo' = FALSE
    /\ disconnected' = TRUE
    /\ ev' = "disconnect"
    /\ UNCHANGED <<rafPending, fontsThen, winListener>>
    /\ UNCHANGED <<configVars, layoutVars, sessionVars, timerVars>>

\* session.disconnect(); removeEventListener of a listener that is not
\* registered does nothing
disconnect ==
    /\ idle
    /\ IF observerCallThrows(roExists) \/ observerCallThrows(moExists)
       THEN /\ ro' = IF observerCallThrows(roExists) THEN ro ELSE FALSE
            /\ ev' = "disconnect-threw"
            /\ UNCHANGED <<mo, winListener, disconnected>>
       ELSE /\ ro' = FALSE
            /\ mo' = FALSE
            /\ winListener' = FALSE
            /\ disconnected' = TRUE
            /\ ev' = IF disconnected THEN "disconnect-again" ELSE "disconnect"
    /\ UNCHANGED <<rafPending, fontsThen>>
    /\ UNCHANGED <<configVars, layoutVars, sessionVars, timerVars>>

----------------------------------------------------------------------------
(* fitFontToContainer: the state it leaves behind *)

defaults == [minPx |-> 8, maxPx |-> 512, observeMutations |-> TRUE,
             observeResize |-> TRUE, debounceMs |-> 100, refitOnFontLoad |-> TRUE]

\* a precondition check that throws only when both elements are missing
argsMissingBoth(a) == ~a.target /\ ~a.container

\* if (!targetEl || !containerEl) throw new Error(...)
argsMissing(a) == ~a.target \/ ~a.container

fitFontToContainer ==
    /\ args = [target |-> TRUE, container |-> TRUE]
    /\ phase = "live"
    /\ busy = FALSE
    /\ stack = <<>>
    /\ fontSize = 0
    /\ marker = <<>>
    /\ outcome = "none"
    /\ surfaces = 0
    /\ styled = FALSE
    /\ probed = {}
    /\ timers = noTimers
    /\ t = 0
    /\ ro = (opts.observeResize /\ env.hasRO)
    /\ winListener = ~(opts.observeResize /\ env.hasRO)
    /\ mo = (opts.observeMutations /\ env.hasMO)
    /\ fontsThen = IF variant = "clone" /\ opts.refitOnFontLoad /\ env.hasFonts
                   THEN "pending" ELSE "none"
    /\ rafPending = TRUE
    /\ disconnected = FALSE
    /\ burst = 0
    /\ fires = 0
    /\ ev = "init"

\* The call itself, from the page's state before it: it throws on a missing
\* element before anything else, and otherwise wires the session up and
\* returns it.
fitFontToContainerCall ==
    /\ phase = "before"
    /\ IF argsMissing(args)
       THEN /\ phase' = "threw"
            /\ ev' = "call-threw"
            /\ UNCHANGED wiringVars
       ELSE /\ phase' = "live"
            /\ ro' = (opts.observeResize /\ env.hasRO)
            /\ winListener' = ~(opts.observeResize /\ env.hasRO)
            /\ mo' = (opts.observeMutations /\ env.hasMO)
            /\ fontsThen' = IF variant = "clone" /\ opts.refitOnFontLoad /\ env.hasFonts
                            THEN "pending" ELSE "none"
            /\ rafPending' = TRUE
            /\ ev' = "init"
            /\ UNCHANGED disconnected
    /\ UNCHANGED <<variant, opts, env, args>>
    /\ UNCHANGED <<layoutVars, sessionVars, timerVars>>

\* Sessions for the search: every size range, every oracle over the range
InitSearch ==
    /\ variant \in Variants
    /\ \E mn \in 1..MaxPx, mx \in 1..MaxPx :
          /\ opts = [defaults EXCEPT !.minPx = mn, !.maxPx = mx, !.debounceMs = MaxDebounce]
          /\ cw \in Dims
          /\ ch \in {0, Max(cw, 1)}
          /\ oracle \in IF Degenerate THEN {{}} ELSE SUBSET (mn..mx)
    /\ env = [hasRO |-> TRUE, hasMO |-> TRUE, hasFonts |-> TRUE]
    /\ fitFontToContainer

NextSearch ==
    \/ ManualRefit
    \/ ReentrantRefit
    \/ SearchProbe
    \/ SearchThrow
    \/ RefitApply

SearchSpec == InitSearch /\ [][NextSearch]_vars


\* Sessions for the controller: every option and host combination, one size range
Init ==
    /\ variant \in Variants
    /\ \E om \in BOOLEAN, orz \in BOOLEAN, d \in {0, MaxDebounce}, fl \in BOOLEAN :
          /\ variant = "inplace" => ~fl
          /\ opts = [minPx |-> MaxPx - 1, maxPx |-> MaxPx, observeMutations |-> om,
                     observeResize |-> orz, debounceMs |-> d, refitOnFontLoad |-> fl]
    /\ \E r \in BOOLEAN, m \in BOOLEAN, f \in BOOLEAN :
          /\ variant = "inplace" => ~f
          /\ env = [hasRO |-> r, hasMO |-> m, hasFonts |-> f]
    /\ cw \in Dims
    /\ ch = cw
    /\ oracle \in IF Degenerate THEN {{}} ELSE Fits
    /\ fitFontToContainer

Next ==
    \/ ManualRefit
    \/ ReentrantRefit
    \/ SearchProbe
    \/ SearchThrow
    \/ RefitApply
    \/ Tick
    \/ TimerFire
    \/ RafFire
    \/ FontsReady
    \/ ContainerResize
    \/ WindowResize
    \/ ContentMutation
    \/ disconnect

Spec == Init /\ [][Next]_vars

\* The page before fitFontToContainer is called: any elements passed or
\* missing, a target with or without an inline font size
InitCall ==
    /\ variant \in Variants
    /\ \E om \in BOOLEAN, orz \in BOOLEAN, fl \in BOOLEAN :
          /\ variant = "inplace" => ~fl
          /\ opts = [minPx |-> MaxPx - 1, maxPx |-> MaxPx, observeMutations |-> om,
                     observeResize |-> orz, debounceMs |-> MaxDebounce,
                     refitOnFontLoad |-> fl]
    /\ \E r \in BOOLEAN, f \in BOOLEAN :
          /\ variant = "inplace" => ~f
          /\ env = [hasRO |-> r, hasMO |-> TRUE, hasFonts |-> f]
    /\ args \in [target : BOOLEAN, container : BOOLEAN]
    /\ phase = "before"
    /\ cw \in Dims
    /\ ch = cw
    /\ oracle = IF Degenerate THEN {} ELSE 1..(MaxPx - 1)
    /\ fontSize \in {0, MaxPx}
    /\ marker = <<>>
    /\ busy = FALSE
    /\ stack = <<>>
    /\ outcome = "none"
    /\ surfaces = 0
    /\ styled = FALSE
    /\ probed = {}
    /\ timers = noTimers
    /\ t = 0
    /\ ro = FALSE
    /\ mo = FALSE
    /\ winListener = FALSE
    /\ fontsThen = "none"
    /\ rafPending = FALSE
    /\ disconnected = FALSE
    /\ burst = 0
    /\ fires = 0
    /\ ev = "page"

\* the session's handlers exist only once the call has returned
NextCall ==
    \/ fitFontToContainerCall
    \/ (phase = "live" /\ ManualRefit)
    \/ (phase = "live" /\ ReentrantRefit)
    \/ (phase = "live" /\ SearchProbe)
    \/ (phase = "live" /\ SearchThrow)
    \/ (phase = "live" /\ RefitApply)
    \/ (phase = "live" /\ Tick)
    \/ (phase = "live" /\ TimerFire)
    \/ (phase = "live" /\ RafFire)
    \/ (phase = "live" /\ FontsReady)
    \/ (phase = "live" /\ ContainerResize)
    \/ (phase = "live" /\ WindowResize)
    \/ (phase = "live" /\ ContentMutation)
    \/ (phase = "live" /\ disconnect)

CallSpec == InitCall /\ [][NextCall]_vars

----------------------------------------------------------------------------
(* Properties of the search and of what a refit cycle records *)

validRange == 1 <= opts.minPx /\ opts.minPx <= opts.maxPx

\* the value computeBestFontSize returned to the latest completed cycle,
\* which refit() stored as the marker
returned == marker[1]

\* the oracle is non-increasing in size over the range it is asked about
monotone == \A x \in oracle : \A y \in opts.minPx..x : y \in oracle

\* a monotone oracle that fits at minPx fits at every smaller size too
fitsAt(s) == IF s < opts.minPx THEN opts.minPx \in oracle ELSE s \in oracle

\* C1: for 1 <= minPx <= maxPx, every geometry and every oracle, the value a
\* completed cycle got from computeBestFontSize lies in [minPx, maxPx], in
\* both variants.
C1_Bounds ==
    (outcome = "applied" /\ validRange)
        => (opts.minPx <= returned /\ returned <= opts.maxPx)

\* C2: with a positive-area container and a monotone oracle that fits at
\* minPx, the returned size s fits and either s = maxPx or s+1 does not fit;
\* when nothing in the range fits, minPx is returned.
C2_LargestFit ==
    (outcome = "applied" /\ validRange /\ ~Degenerate /\ monotone)
        => /\ opts.minPx \in oracle
              => /\ fitsAt(returned)
                 /\ returned = opts.maxPx \/ ~fitsAt(returned + 1)
           /\ oracle = {} => returned = opts.minPx

\* C3: with clientWidth <= 0 or clientHeight <= 0 the cycle gets exactly the
\* configured minPx, whatever maxPx and the content are, in both variants.
C3_Degenerate ==
    (outcome = "applied" /\ (cw <= 0 \/ ch <= 0)) => returned = opts.minPx

C3_Witness ==
    /\ outcome = "applied"
    /\ cw > 0 /\ ch <= 0
    /\ opts.minPx > 1 /\ opts.maxPx > opts.minPx
    /\ returned = opts.minPx

\* C11: with container, content and options unchanged, every completed cycle
\* records the marker the previous one recorded and applies the size that
\* goes with it: what a cycle leaves behind does not change the next result.
C11_Idempotent ==
    /\ [][marker # <<>> => marker' = marker]_vars
    /\ [](outcome = "applied" => fontSize = setFontSizePx(returned))

\* a second cycle, after one that completed and none that threw, about to apply
C11_Witness ==
    /\ marker # <<>>
    /\ ~idle
    /\ top.lo > top.hi
    /\ variant = "clone" => surfaces = 1
    /\ opts.minPx < opts.maxPx
    /\ oracle # {}

\* C9: after a completed cycle the marker's number equals the pixel value
\* written to the target's font-size in that cycle.
C9_MarkerEqualsApplied ==
    outcome = "applied" => returned = fontSize

----------------------------------------------------------------------------
(* Properties of the controller *)

Signals == {"resize", "winresize", "mutation", "fonts"}

\* C4: a burst of debounced invocations, each arriving while the previous
\* one's timer is still pending, leads to exactly one refit execution: none
\* runs while a timer of the burst is pending, at most one runs per burst,
\* and the one that runs is the timer armed by the last invocation, when due.
C4_Coalescing ==
    /\ [](fires <= 1 /\ (timerPending => fires = 0))
    /\ [][fires' = fires + 1 => (timers[t] = 0 /\ ~timerPending' /\ ev' = "timer")]_vars

C4_Witness ==
    /\ burst >= 2
    /\ fires = 1
    /\ ev = "timer"
    /\ opts.debounceMs > 0

\* C5: at most one refit cycle is in progress; busy is set exactly while a
\* cycle is in progress; a refit() called while busy changes neither the
\* search, the target's size, the marker nor busy.
C5_ReentrancyGuard ==
    /\ [](Len(stack) <= 1 /\ (busy <=> ~idle))
    /\ [][ev' = "dropped" => UNCHANGED sessionVars]_vars

C5_Witness ==
    /\ ev = "dropped"
    /\ busy
    /\ Len(stack) = 1

\* C6: once disconnect() has returned, a container-resize, window-resize or
\* content-mutation signal reaches no subscription: it arms no timer and
\* writes nothing to the target.
C6_DisconnectStopsSignals ==
    [][(disconnected /\ (ContainerResize \/ WindowResize \/ ContentMutation))
          => (ev' = "unheard" /\ UNCHANGED <<timers, t, sessionVars>>)]_vars

C6_Witness ==
    /\ disconnected
    /\ ev = "unheard"
    /\ opts.observeResize /\ env.hasRO
    /\ opts.observeMutations /\ env.hasMO

\* C7: after disconnect() no refit cycle starts from the debounce timer or
\* from the animation frame; only a manual refit() starts one.
C7_DisconnectNeutralisesPending ==
    disconnected => ev \notin {"timer", "raf"}

\* C8: when a measurement throws, refit() exits with busy cleared and the
\* marker as it was, and the next refit() call, whatever makes it, is not
\* dropped.
C8_ThrowKeepsUsable ==
    /\ [](ev = "throw" => (~busy /\ idle /\ outcome = "threw"))
    /\ [][ev' = "throw" => marker' = marker]_vars
    /\ [][(outcome = "threw" /\ idle) => ev' # "dropped"]_vars

C8_Witness ==
    /\ variant = "clone"
    /\ surfaces = 1
    /\ idle
    /\ ev = "apply"
    /\ outcome = "applied"

\* C10: if every signal is one the session observes, and signals, manual
\* calls and measurement failures eventually stop, then eventually and for
\* good no timer is pending, no cycle runs, and the target carries the size
\* and marker of the search over the current container and content.
Settled ==
    /\ idle
    /\ ~timerPending
    /\ fontSize = setFontSizePx(computeBestFontSize)
    /\ marker = markerOf(computeBestFontSize)

C10_Convergence ==
    ([](ev # "unheard") /\ <>[](ev \notin Signals \cup {"manual"} /\ outcome # "threw"))
        => <>[]Settled

C10_Witness ==
    /\ Settled
    /\ burst >= 2
    /\ ev = "apply"
    /\ ~disconnected

\* the event loop runs due timers, animation frames and resolved promises,
\* time passes, and a running handler runs on
Fairness ==
    /\ WF_vars(Tick)
    /\ WF_vars(TimerFire)
    /\ WF_vars(RafFire)
    /\ WF_vars(FontsReady)
    /\ WF_vars(SearchProbe)
    /\ WF_vars(RefitApply)

\* Sessions for the liveness check: both observers wanted, every host
InitFair ==
    /\ Init
    /\ opts.observeResize
    /\ opts.observeMutations
    /\ opts.debounceMs = MaxDebounce

FairSpec == InitFair /\ [][Next]_vars /\ Fairness

----------------------------------------------------------------------------
(* Properties of the call and of the session's wiring *)

\* C12: called with a missing target or container, fitFontToContainer throws
\* and does nothing else: no observer, listener, font-load callback, timer
\* or animation frame exists afterwards and the target is untouched.
C12_PreconditionThrows ==
    /\ [][(phase = "before" /\ (~args.target \/ ~args.container))
            => (phase' = "threw"
                 /\ UNCHANGED <<sessionVars, timerVars, wiringVars, layoutVars>>)]_vars
    /\ [](phase = "threw"
            => (~ro /\ ~mo /\ ~winListener /\ fontsThen = "none" /\ ~rafPending
                 /\ ~timerPending /\ outcome = "none" /\ marker = <<>>))

C12_Witness ==
    /\ phase = "threw"
    /\ args.target
    /\ ~args.container
    /\ opts.observeResize /\ opts.observeMutations

\* C13: a second or later disconnect() changes nothing the first one left,
\* every disconnect() leaves all three subscriptions released, and none
\* raises an error, also when the observers were never created.
C13_DisconnectIdempotent ==
    /\ [][ev' = "disconnect-again"
            => UNCHANGED <<sessionVars, timerVars, wiringVars, layoutVars, configVars>>]_vars
    /\ [](ev \in {"disconnect", "disconnect-again"} => (~ro /\ ~mo /\ ~winListener))
    /\ [](ev # "disconnect-threw")

C13_Witness ==
    /\ ev = "disconnect-again"
    /\ ~roExists
    /\ ~moExists
    /\ timerPending

\* C14: the session listens to window 'resize' exactly when the host has no
\* ResizeObserver, and a session created with observeResize off never has a
\* resize signal of either kind delivered to it.
C14_FallbackOnlyWithoutObserver ==
    /\ ~disconnected => (winListener <=> ~env.hasRO)
    /\ ~opts.observeResize => ev \notin {"resize", "winresize"}

\* C15: while no search is executing, no measurement box is attached to the
\* document, whether the last search returned or threw.
C15_SurfaceLifetime ==
    idle => surfaces = 0

\* C16: in the clone variant the steps of a search, returning or throwing,
\* leave the live target's font size and marker as they were; the font size
\* changes only in the step that completes a cycle, to the size that goes
\* with the recorded result.
C16_CloneIsolation ==
    /\ [][(variant = "clone" /\ ev' \in {"probe", "throw", "nested", "dropped"})
            => (fontSize' = fontSize /\ marker' = marker)]_vars
    /\ [][(variant = "clone" /\ (fontSize' # fontSize \/ marker' # marker))
            => (outcome' = "applied" /\ idle'
                 /\ fontSize' = setFontSizePx(returned'))]_vars

\* a search that threw after an earlier cycle completed: target as it was
C16_Witness ==
    /\ variant = "clone"
    /\ ev = "throw"
    /\ marker # <<>>
    /\ fontSize = returned
    /\ returned > opts.minPx

\* C17: with clientWidth <= 0 or clientHeight <= 0 a refit cycle is over in
\* the step that starts it, having measured nothing, set up no search,
\* written no layout style, created no measurement box, and written to the
\* target only the returned minPx.
C17_DegenerateNoProbing ==
    /\ []((cw <= 0 \/ ch <= 0)
            => (idle /\ probed = {} /\ surfaces = 0 /\ ~styled))
    /\ [][((cw <= 0 \/ ch <= 0) /\ ev' \in {"manual", "raf", "timer"})
            => (stack' = stack /\ fontSize' = setFontSizePx(opts.minPx))]_vars

C17_Witness ==
    /\ cw > 0 /\ ch <= 0
    /\ ev = "manual"
    /\ outcome = "applied"
    /\ probed = {} /\ surfaces = 0 /\ ~styled
    /\ fontSize = opts.minPx

width(f) == f.hi - f.lo + 1

RECURSIVE floorLog2(_)
floorLog2(n) == IF n <= 1 THEN 0 ELSE 1 + floorLog2(n \div 2)

probeLimit == floorLog2(opts.maxPx - opts.minPx + 1) + 1

\* C18: for 1 <= minPx <= maxPx and any oracle, every loop iteration makes
\* [lo, hi] strictly narrower (so the loop ends), measures a size not
\* measured before in the search, and a search measures at most
\* floor(log2(maxPx - minPx + 1)) + 1 sizes.
C18_ProbeCount ==
    /\ [][(validRange /\ ev' = "probe")
            => (width(top') < width(top) /\ midOf(top) \notin probed
                 /\ probed' = probed \cup {midOf(top)})]_vars
    /\ []((validRange /\ ~idle) => width(top) >= 0)
    /\ [](validRange => Cardinality(probed) <= probeLimit)

C18_Witness ==
    /\ ~idle
    /\ top.lo > top.hi
    /\ opts.maxPx - opts.minPx + 1 >= 8
    /\ Cardinality(probed) = probeLimit
    /\ \E x \in probed : x \notin oracle
    /\ \E x \in probed : x \in oracle

\* C19: fitFontToContainer returns with the target's size and marker as they
\* were and no cycle run; it leaves one animation-frame callback pending and
\* none is added later; that callback is a plain refit() call, busy guard
\* included, and touches no debounce timer.
C19_DeferredInitialRefit ==
    /\ [][(phase = "before" /\ phase' = "live")
            => (/\ fontSize' = fontSize /\ marker' = marker
                /\ outcome' = "none" /\ idle'
                /\ ~rafPending /\ rafPending'
                /\ UNCHANGED timerVars)]_vars
    /\ [][phase = "live" => (rafPending' => rafPending)]_vars
    /\ [][(rafPending /\ ~rafPending')
            => (refitCall /\ ev' = refitLabel("raf") /\ UNCHANGED timerVars)]_vars

C19_Witness ==
    /\ phase = "live"
    /\ ev = "raf"
    /\ ~rafPending
    /\ outcome = "running"
    /\ fontSize = MaxPx /\ marker = <<>>
    /\ timers = noTimers /\ fires = 0

refitSteps == {"manual", "raf", "timer", "nested", "dropped", "probe", "throw", "apply"}

\* C20: no step of a refit cycle arms a timer, whatever it writes to a target
\* under mutation observation; once the timer of a burst has run its refit
\* and no further signal has come, nothing is pending and that refit was the
\* only one.
C20_NoSelfTrigger ==
    /\ [][ev' \in refitSteps
            => (/\ \A i \in 1..MaxTimers : timers'[i] \in {timers[i], -1}
                /\ t' = t /\ burst' = burst)]_vars
    /\ [](fires >= 1 => (fires = 1 /\ ~timerPending))

C20_Witness ==
    /\ mo
    /\ variant = "inplace" /\ styled
    /\ ev = "apply"
    /\ fontSize = returned
    /\ fires = 1 /\ burst >= 1
    /\ ~timerPending /\ ~rafPending

====
